---- MODULE Spec2Model ----
(***************************************************************************)
(* A model of the course-folder scripts ClassSetup.py and ClassArchive.py: *)
(* the directory synchronisation (synchronize_directories and the helpers  *)
(* it calls, with the top-level try/except of the script), the semester    *)
(* label (determine_semester) and the selection prompts (select_json_file, *)
(* select_directory).                                                      *)
(*                                                                         *)
(* The filesystem is a function from paths (sequences of path components)  *)
(* to nodes: nothing, a directory, or a file with its content.  A file's   *)
(* content is the sequence of the text pieces written to it, "\n" being a  *)
(* piece of its own, so that the lines of a file are computed from what    *)
(* was written.  Course names and field values are single path components  *)
(* and single text pieces: they hold no path separator and no line break.  *)
(***************************************************************************)
EXTENDS Integers, Sequences, FiniteSets, TLC

\* ------------------------------------------------------------------ bounds

\* The longest DesiredSet (course list) a run is given.
MaxCourses == 2

\* The longest list a selection prompt is given.
MaxItems == 3

\* The clock runs over the years 2023 .. 2023 + YearSpan.
YearSpan == 2

\* ------------------------------------------------------------- the universe

\* The names a course, a folder or a stray file of the semester path may have.
Names == {"CS314", "M408D", "OLD101"}

\* The sync root found by find_onedrive_directory: it exists and is a directory.
onedrive_path == <<"OneDrive">>

\* os.path.join(path, name), for a relative single-component name.
join(path, name) == Append(path, name)

\* The files a course folder of the model may hold.
FileNames == {"course_info.txt", "notes.txt"}

\* A semester folder beside the one synchronised, with a course folder in it.
OtherSemester == join(onedrive_path, "Fall 2023")

OtherCourse == join(OtherSemester, "CS312")

SemesterLabels == {"Spring 2024"}

AllPaths ==
  {onedrive_path, OtherSemester, OtherCourse, join(OtherCourse, "notes.txt")}
  \cup {join(onedrive_path, s) : s \in SemesterLabels}
  \cup {join(join(onedrive_path, s), n) : s \in SemesterLabels, n \in Names}
  \cup {join(join(join(onedrive_path, s), n), f) :
          s \in SemesterLabels, n \in Names, f \in FileNames}

Absent == [kind |-> "none"]

DirNode == [kind |-> "dir"]

FileNode(data) == [kind |-> "file", data |-> data]

IsPrefix(p, q) == Len(p) <= Len(q) /\ SubSeq(q, 1, Len(p)) = p

\* ----------------------------------------------------- filesystem queries

\* os.path.exists(path)
exists(f, path) == path \in DOMAIN f /\ f[path].kind # "none"

\* os.path.isdir(path)
isdir(f, path) == path \in DOMAIN f /\ f[path].kind = "dir"

\* os.listdir(path): the names of the entries of a directory.
listdir(f, path) ==
  {q[Len(q)] : q \in {r \in DOMAIN f : /\ Len(r) = Len(path) + 1
                                       /\ IsPrefix(path, r)
                                       /\ f[r].kind # "none"}}

GetExistingRaisesWithoutExistsTest(f, path) == ~isdir(f, path)

\* get_existing_directories raises when os.listdir does: the path exists and
\* is not a directory (NotADirectoryError).
get_existing_directories_raises(f, path) == exists(f, path) /\ ~isdir(f, path)

\* get_existing_directories(path): [] for a missing path, else the entries
\* that are directories.  The list is used for membership and iterated once;
\* its order is the one os.listdir gives, which the iteration chooses.
get_existing_directories(f, path) ==
  IF ~exists(f, path) THEN {}
  ELSE {d \in listdir(f, path) : isdir(f, join(path, d))}

IsDirectoryEmptyAlways(f, dir_path) == TRUE

\* is_directory_empty(dir_path)
is_directory_empty(f, dir_path) ==
  IF exists(f, dir_path) /\ isdir(f, dir_path)
    THEN listdir(f, dir_path) = {}
    ELSE TRUE

\* --------------------------------------------------- filesystem mutations

\* os.makedirs(path): the path and each missing ancestor become directories.
makedirs(f, path) ==
  [q \in DOMAIN f |->
     IF IsPrefix(q, path) /\ f[q].kind = "none" THEN DirNode ELSE f[q]]

\* shutil.rmtree(path): the path and everything below it are removed.
rmtree(f, path) ==
  [q \in DOMAIN f |-> IF IsPrefix(path, q) THEN Absent ELSE f[q]]

\* ------------------------------------------------------------ course records

\* A course record is a dict in insertion order: a sequence of <<key, value>>.
Get(record, key) ==
  LET k == CHOOSE k \in 1..Len(record) : record[k][1] = key IN record[k][2]

RECURSIVE Flatten(_)
Flatten(chunks) ==
  IF chunks = <<>> THEN <<>> ELSE Head(chunks) \o Flatten(Tail(chunks))

DescriptorTextReversed(course_info) ==
  Flatten([k \in 1..Len(course_info) |->
             <<course_info[Len(course_info) + 1 - k][1], ": ",
               course_info[Len(course_info) + 1 - k][2], "\n">>])

\* What the loop of create_folder_with_info writes: f"{key}: {value}\n" for
\* each item of the record, in order.
DescriptorText(course_info) ==
  Flatten([k \in 1..Len(course_info) |->
             <<course_info[k][1], ": ", course_info[k][2], "\n">>])

\* The record an already present descriptor was written from.
OldRecord(name) == <<<<"coursename", name>>, <<"instructor", "Novak">>>>


\* The outcomes of the filesystem calls of create_folder_with_info on a path
\* where nothing exists: all succeed, or one of them raises (a permission
\* error, a full disk), leaving what the earlier ones did.
CreateOutcomes == {"ok", "makedirs raises", "open raises", "write raises"}

CreateFolderTestInverted(f, path, course_info, outcome) ==
  IF exists(f, path)
    THEN [f EXCEPT ![join(path, "course_info.txt")] =
                      FileNode(DescriptorText(course_info))]
    ELSE f

CreateFolderOverwriting(f, path, course_info, outcome) ==
  LET info_file == join(path, "course_info.txt")
      made == [q \in DOMAIN f |->
                 IF IsPrefix(q, path) /\ f[q].kind # "dir" THEN DirNode ELSE f[q]]
  IN  [made EXCEPT ![info_file] = FileNode(DescriptorText(course_info))]

\* create_folder_with_info(path, course_info): the filesystem it leaves.
create_folder_with_info(f, path, course_info, outcome) ==
  LET info_file == join(path, "course_info.txt") IN
  IF ~exists(f, path)
    THEN CASE outcome = "makedirs raises" -> f
           [] outcome = "open raises" -> makedirs(f, path)
           [] outcome = "write raises" ->
                [makedirs(f, path) EXCEPT ![info_file] = FileNode(<<>>)]
           [] OTHER ->
                [makedirs(f, path) EXCEPT
                   ![info_file] = FileNode(DescriptorText(course_info))]
    ELSE f

\* What create_folder_with_info prints.
create_folder_prints(f, path, outcome) ==
  IF ~exists(f, path)
    THEN CASE outcome = "makedirs raises" -> <<>>
           [] outcome = "ok" ->
                << <<"Folder created: ", path>>,
                   <<"Info file created: ", join(path, "course_info.txt")>> >>
           [] OTHER -> << <<"Folder created: ", path>> >>
    ELSE << <<"Folder already exists: ", path>> >>

\* The filesystem calls create_folder_with_info completed, in order.
create_folder_calls(f, path, outcome) ==
  IF ~exists(f, path)
    THEN CASE outcome = "makedirs raises" -> <<>>
           [] outcome = "open raises" -> << <<"makedirs", path>> >>
           [] OTHER -> << <<"makedirs", path>>,
                          <<"write", join(path, "course_info.txt")>> >>
    ELSE <<>>

ShouldDeleteInverted(existing_dir, names) ==
  \E k \in 1..Len(names) : names[k] = existing_dir

ShouldDeleteAny(existing_dir, names) == TRUE

\* The test of the deletion loop: existing_dir not in course_names.
should_delete(existing_dir, names) ==
  ~\E k \in 1..Len(names) : names[k] = existing_dir

\* The test of the creation loop: course_name not in existing_dirs.
should_create(course_name, dirs) == course_name \notin dirs

AfterRaiseSwallowed(continuation) == continuation

\* Where control goes when a call inside synchronize_directories raises: no
\* try statement encloses it there, so it leaves the function for the except
\* clause of the script.
AfterRaise(continuation) == "raised"

\* ------------------------------------------------------------------- state

VARIABLES
  fs,             \* the filesystem
  fs0,            \* the filesystem when the current run began
  courses,        \* the DesiredSet: a sequence of course records
  semester_name,  \* the semester label the run synchronises
  existing_dirs,  \* the snapshot get_existing_directories returned
  course_names,   \* [course['coursename'] for course in courses]
  i,              \* the position of the creation loop in courses
  pending,        \* the entries of existing_dirs the deletion loop has left
  pc,             \* where the run is
  error,          \* the exception raised in the run, "none" if none
  output,         \* what the run printed
  calls,          \* the mutating filesystem calls the run completed
  created,        \* the names whose folder the run created in full
  rerun,          \* the run repeats a completed run with the same inputs
  clock,          \* the wall clock: [year, month]
  month,          \* determine_semester's local month
  year,           \* determine_semester's local year
  label,          \* what determine_semester returned
  spc,            \* where determine_semester is
  instants,       \* the clock values during the call of determine_semester
  fn,             \* the prompt function running
  items,          \* the list the prompt was given
  cursor_position,
  key,            \* the last key stdscr.getch() returned
  result,         \* what the prompt returned
  ppc             \* where the prompt is

syncVars == <<fs, fs0, courses, semester_name, existing_dirs, course_names, i,
              pending, pc, error, output, calls, created, rerun>>

semVars == <<clock, month, year, label, spc, instants>>

promptVars == <<fn, items, cursor_position, key, result, ppc>>

vars == <<syncVars, semVars, promptVars>>

semester_path == join(onedrive_path, semester_name)

\* ----------------------------------------------------------- initial states

\* What may be at semester_path/name before the first run.
ChildStates == {"none", "file", "empty", "info", "notes", "both"}

Tree(label0, semKind, st) ==
  LET sem == join(onedrive_path, label0) IN
  [p \in AllPaths |->
     IF p = join(OtherCourse, "notes.txt") THEN FileNode(<<"syllabus", "\n">>)
     ELSE IF ~IsPrefix(sem, p) THEN DirNode
     ELSE IF p = sem
       THEN (IF semKind = "dir" THEN DirNode
             ELSE IF semKind = "file" THEN FileNode(<<>>) ELSE Absent)
     ELSE IF semKind # "dir" THEN Absent
     ELSE IF Len(p) = Len(sem) + 1
       THEN (IF st[p[Len(p)]] = "none" THEN Absent
             ELSE IF st[p[Len(p)]] = "file" THEN FileNode(<<>>) ELSE DirNode)
     ELSE LET n == p[Len(p) - 1]
              file == p[Len(p)]
          IN  IF file = "course_info.txt" /\ st[n] \in {"info", "both"}
                THEN FileNode(DescriptorText(OldRecord(n)))
              ELSE IF file = "notes.txt" /\ st[n] \in {"notes", "both"}
                THEN FileNode(<<"todo", "\n">>)
              ELSE Absent]

RECURSIVE SeqsOver(_, _)
\* The sequences without repetition over S of length at most n.
SeqsOver(S, n) ==
  IF n = 0 THEN {<<>>}
  ELSE LET shorter == SeqsOver(S, n - 1)
       IN  shorter \cup {Append(q, x) : q \in {r \in shorter : Len(r) = n - 1},
                                        x \in S}

Injective(q) == \A a, b \in 1..Len(q) : q[a] = q[b] => a = b

\* The DesiredSets: course records of pairwise different names, all of one
\* shape (the same fields in the same order).
RecordShapes == {"name only", "instructor first"}

RecordOf(shape, name) ==
  IF shape = "name only"
    THEN <<<<"coursename", name>>>>
    ELSE <<<<"instructor", "Scott">>, <<"coursename", name>>>>

DesiredSets ==
  {[k \in 1..Len(q) |-> RecordOf(shape, q[k])] :
     q \in {r \in SeqsOver(Names, MaxCourses) : Injective(r)},
     shape \in RecordShapes}

SemIdle ==
  /\ clock = [year |-> 0, month |-> 1]
  /\ month = 0 /\ year = 0 /\ label = "" /\ spc = "idle" /\ instants = {}

PromptIdle ==
  /\ fn = "none" /\ items = <<>> /\ cursor_position = 0
  /\ key = "none" /\ result = [type |-> "none"] /\ ppc = "idle"

SyncIdle ==
  /\ fs = <<>> /\ fs0 = <<>> /\ courses = <<>> /\ semester_name = ""
  /\ existing_dirs = {} /\ course_names = <<>> /\ i = 1 /\ pending = {}
  /\ pc = "idle" /\ error = "none" /\ output = <<>> /\ calls = <<>>
  /\ created = {} /\ rerun = FALSE

SyncInit ==
  /\ semester_name \in SemesterLabels
  /\ \E semKind \in {"none", "file", "dir"} :
       \E st \in [Names -> ChildStates] :
         /\ semKind # "dir" => \A n \in Names : st[n] = "none"
         /\ fs = Tree(semester_name, semKind, st)
  /\ fs0 = fs
  /\ courses \in DesiredSets
  /\ existing_dirs = {} /\ course_names = <<>> /\ i = 1 /\ pending = {}
  /\ pc = "call" /\ error = "none" /\ output = <<>> /\ calls = <<>>
  /\ created = {} /\ rerun = FALSE
  /\ SemIdle /\ PromptIdle

\* ------------------------------------------------- synchronize_directories

\* Lines 141-143: the snapshot of the existing directories and the names of
\* the desired courses.
SyncStart ==
  /\ pc = "call"
  /\ IF get_existing_directories_raises(fs, semester_path)
       THEN /\ pc' = AfterRaise("create")
            /\ error' = "NotADirectoryError"
       ELSE /\ pc' = "create"
            /\ error' = error
  /\ existing_dirs' = get_existing_directories(fs, semester_path)
  /\ course_names' = [k \in 1..Len(courses) |-> Get(courses[k], "coursename")]
  /\ i' = 1
  /\ UNCHANGED <<fs, fs0, courses, semester_name, pending, output, calls,
                 created, rerun, semVars, promptVars>>

\* One pass of the creation loop, lines 146-150.
CreateStep ==
  /\ pc = "create"
  /\ i <= Len(courses)
  /\ LET course == courses[i]
         course_name == Get(course, "coursename")
         course_folder_path == join(semester_path, course_name)
     IN  IF should_create(course_name, existing_dirs)
           THEN \E outcome \in IF exists(fs, course_folder_path)
                                 THEN {"ok"} ELSE CreateOutcomes :
                  /\ fs' = create_folder_with_info(fs, course_folder_path,
                                                   course, outcome)
                  /\ output' = output \o create_folder_prints(
                                  fs, course_folder_path, outcome)
                  /\ calls' = calls \o create_folder_calls(
                                  fs, course_folder_path, outcome)
                  /\ created' = IF ~exists(fs, course_folder_path)
                                   /\ outcome = "ok"
                                  THEN created \cup {course_name} ELSE created
                  /\ IF outcome = "ok"
                       THEN pc' = "create" /\ error' = error
                       ELSE pc' = AfterRaise("create")
                            /\ error' = "PermissionError"
           ELSE UNCHANGED <<fs, output, calls, created, pc, error>>
  /\ i' = i + 1
  /\ UNCHANGED <<fs0, courses, semester_name, existing_dirs, course_names,
                 pending, rerun, semVars, promptVars>>

\* The creation loop ends and the deletion loop begins, line 153.
CreateDone ==
  /\ pc = "create"
  /\ i > Len(courses)
  /\ pc' = "delete"
  /\ pending' = existing_dirs
  /\ UNCHANGED <<fs, fs0, courses, semester_name, existing_dirs, course_names,
                 i, error, output, calls, created, rerun, semVars, promptVars>>

\* One pass of the deletion loop, lines 153-160, on the next entry of the
\* snapshot in the order os.listdir gave.
DeleteStep ==
  /\ pc = "delete"
  /\ \E existing_dir \in pending :
       LET dir_to_delete == join(semester_path, existing_dir) IN
       /\ pending' = pending \ {existing_dir}
       /\ IF should_delete(existing_dir, course_names)
            THEN IF is_directory_empty(fs, dir_to_delete)
                   THEN \E raises \in BOOLEAN :
                          IF raises
                            THEN /\ pc' = AfterRaise("delete")
                                 /\ error' = "PermissionError"
                                 /\ UNCHANGED <<fs, output, calls>>
                            ELSE /\ fs' = rmtree(fs, dir_to_delete)
                                 /\ calls' = Append(calls,
                                                <<"rmtree", dir_to_delete>>)
                                 /\ output' = Append(output,
                                      <<"Deleted directory: ", dir_to_delete>>)
                                 /\ UNCHANGED <<pc, error>>
                   ELSE /\ output' = Append(output,
                             <<"Directory is not empty and was not deleted: ",
                               existing_dir>>)
                        /\ UNCHANGED <<fs, calls, pc, error>>
            ELSE UNCHANGED <<fs, output, calls, pc, error>>
  /\ UNCHANGED <<fs0, courses, semester_name, existing_dirs, course_names, i,
                 created, rerun, semVars, promptVars>>

\* synchronize_directories returns and the script prints its last line,
\* lines 182-184.
SyncReturn ==
  /\ pc = "delete"
  /\ pending = {}
  /\ pc' = "exit"
  /\ output' = Append(output, <<"Course folder synchronization complete.">>)
  /\ UNCHANGED <<fs, fs0, courses, semester_name, existing_dirs, course_names,
                 i, pending, error, calls, created, rerun, semVars, promptVars>>

\* The except clause of the script, lines 186-187.
Handler ==
  /\ pc = "raised"
  /\ pc' = "exit"
  /\ output' = Append(output, <<"An error occurred: ", error>>)
  /\ UNCHANGED <<fs, fs0, courses, semester_name, existing_dirs, course_names,
                 i, pending, error, calls, created, rerun, semVars, promptVars>>

\* The script is run again on the tree the last run left, with the same root
\* and semester label and with the DesiredSet fetched then: the same or another.
RunAgain ==
  /\ pc = "exit"
  /\ pc' = "call"
  /\ courses' \in DesiredSets
  /\ rerun' = (error = "none" /\ courses' = courses)
  /\ fs0' = fs
  /\ existing_dirs' = {} /\ course_names' = <<>> /\ i' = 1 /\ pending' = {}
  /\ error' = "none" /\ output' = <<>> /\ calls' = <<>> /\ created' = {}
  /\ UNCHANGED <<fs, semester_name, semVars, promptVars>>

SyncNext ==
  \/ SyncStart
  \/ CreateStep
  \/ CreateDone
  \/ DeleteStep
  \/ SyncReturn
  \/ Handler
  \/ RunAgain

SpecSync == SyncInit /\ [][SyncNext]_vars


\* ------------------------------------------------------ determine_semester

Years == 2023..(2023 + YearSpan)

\* Lines 106-111: the label built from the locals month and year.
semester_label(m, y) ==
  IF 11 <= m /\ m <= 12 THEN "Spring " \o ToString(y + 1)
  ELSE IF 6 <= m /\ m <= 10 THEN "Fall " \o ToString(y)
  ELSE "Summer " \o ToString(y)

SemesterInit ==
  /\ clock \in [year : Years, month : 1..12]
  /\ month = 0 /\ year = 0 /\ label = "" /\ spc = "call"
  /\ instants = {clock}
  /\ SyncIdle /\ PromptIdle

\* Line 104: month = datetime.now().month
ReadMonth ==
  /\ spc = "call"
  /\ month' = clock.month
  /\ spc' = "month read"
  /\ UNCHANGED <<clock, year, label, instants, syncVars, promptVars>>

\* Line 105: year = datetime.now().year, a second reading of the clock.
ReadYear ==
  /\ spc = "month read"
  /\ year' = clock.year
  /\ spc' = "year read"
  /\ UNCHANGED <<clock, month, label, instants, syncVars, promptVars>>

\* Lines 106-111.
ReturnLabel ==
  /\ spc = "year read"
  /\ label' = semester_label(month, year)
  /\ spc' = "returned"
  /\ UNCHANGED <<clock, month, year, instants, syncVars, promptVars>>

\* Time passes: the clock enters the next month, at any point of the call.
ClockTick ==
  /\ spc \in {"call", "month read", "year read"}
  /\ ~(clock.year = 2023 + YearSpan /\ clock.month = 12)
  /\ clock' = IF clock.month = 12
                THEN [year |-> clock.year + 1, month |-> 1]
                ELSE [year |-> clock.year, month |-> clock.month + 1]
  /\ instants' = instants \cup {clock'}
  /\ UNCHANGED <<month, year, label, spc, syncVars, promptVars>>

\* determine_semester is called again, in a later run of the script.
CallAgain ==
  /\ spc = "returned"
  /\ spc' = "call"
  /\ month' = 0 /\ year' = 0 /\ label' = ""
  /\ instants' = {clock}
  /\ UNCHANGED <<clock, syncVars, promptVars>>

SemesterNext ==
  \/ ReadMonth
  \/ ReadYear
  \/ ReturnLabel
  \/ ClockTick
  \/ CallAgain

SpecSemester == SemesterInit /\ [][SemesterNext]_vars

\* ------------------------------------- select_json_file, select_directory

\* A Python str, and an entry of the listing get_json_files_from_git returns.
Str(s) == [type |-> "str", val |-> s]

FileItem(k) ==
  [type |-> "dict",
   name |-> "schedule" \o ToString(k) \o ".json",
   download_url |-> "https://raw.githubusercontent.com/schedule"
                       \o ToString(k) \o ".json"]

DirItem(k) == Str("Semester " \o ToString(k))

ItemLists(fun) ==
  {[k \in 1..Len(q) |-> IF fun = "select_json_file"
                          THEN FileItem(q[k]) ELSE DirItem(q[k])] :
     q \in {r \in SeqsOver(1..MaxItems, MaxItems) : Injective(r)}}

\* What stdscr.getch() may return: the keys the loop tests, and another.
Keys == {"KEY_ENTER", "\n", "KEY_UP", "KEY_DOWN", "q"}

NextCursorUnbounded(k, cursor, n) ==
  IF k = "KEY_UP" THEN cursor - 1
  ELSE IF k = "KEY_DOWN" THEN cursor + 1
  ELSE cursor

\* The elif chain of the loop: the cursor after a key that is not ENTER.
next_cursor(k, cursor, n) ==
  IF k = "KEY_UP" /\ cursor > 0 THEN cursor - 1
  ELSE IF k = "KEY_DOWN" /\ cursor < n - 1 THEN cursor + 1
  ELSE cursor

\* The return statement of each prompt.
returned_value(fun, list, cursor) ==
  IF fun = "select_json_file"
    THEN Str(list[cursor + 1].download_url)
    ELSE list[cursor + 1]

PromptInit ==
  /\ fn \in {"select_json_file", "select_directory"}
  /\ items \in ItemLists(fn)
  /\ cursor_position = 0
  /\ key = "none" /\ result = [type |-> "none"] /\ ppc = "loop"
  /\ SyncIdle /\ SemIdle

\* One pass of the while loop: the list is drawn, a key is read and tested.
\* ENTER on an empty list indexes it and raises IndexError.
GetKey ==
  /\ ppc = "loop"
  /\ \E k \in Keys :
       /\ key' = k
       /\ IF k \in {"KEY_ENTER", "\n"}
            THEN IF cursor_position < Len(items)
                   THEN /\ result' = returned_value(fn, items, cursor_position)
                        /\ ppc' = "returned"
                        /\ UNCHANGED cursor_position
                   ELSE /\ ppc' = "raised"
                        /\ UNCHANGED <<result, cursor_position>>
            ELSE /\ cursor_position' = next_cursor(k, cursor_position, Len(items))
                 /\ UNCHANGED <<result, ppc>>
  /\ UNCHANGED <<fn, items, syncVars, semVars>>

PromptNext == GetKey

SpecPrompt == PromptInit /\ [][PromptNext]_vars


\* ================================================================ the claims

NamesOf(list) == {Get(list[k], "coursename") : k \in 1..Len(list)}

Child(n) == join(semester_path, n)

InfoFile(n) == join(Child(n), "course_info.txt")

\* Two filesystems agree at semester_path/n and on everything below it.
SameFolder(f, g, n) ==
  /\ f[Child(n)] = g[Child(n)]
  /\ \A file \in FileNames :
       f[join(Child(n), file)] = g[join(Child(n), file)]

\* The subdirectories of the semester path when the run began, and the empty
\* ones among them.
ExistingAtStart == {n \in Names : fs0[Child(n)].kind = "dir"}

EmptyAtStart ==
  {n \in ExistingAtStart :
     \A file \in FileNames : fs0[join(Child(n), file)].kind = "none"}

\* synchronize_directories returned without error (and the script ended).
Returned == pc = "exit" /\ error = "none"

CallsOf(op) == {calls[k][2] : k \in {j \in 1..Len(calls) : calls[j][1] = op}}

Printed(kind) == \E k \in 1..Len(output) : output[k][1] = kind

RECURSIVE SplitLines(_, _)
\* The lines of a text: its pieces up to each "\n", and what follows the last.
SplitLines(text, line) ==
  IF text = <<>> THEN (IF line = <<>> THEN <<>> ELSE <<line>>)
  ELSE IF Head(text) = "\n" THEN <<line>> \o SplitLines(Tail(text), <<>>)
  ELSE SplitLines(Tail(text), Append(line, Head(text)))

\* The record of DesiredSet with the given course name.
RecordNamed(n) ==
  courses[CHOOSE k \in 1..Len(courses) : Get(courses[k], "coursename") = n]

\* ---------------------------------------------------------------------- C1

\* C1, as stated: after synchronize_directories returns without error every
\* desired course name is a directory under the semester path, whatever was
\* at the semester path before the run.
C1_AsStated ==
  Returned => \A n \in NamesOf(courses) : fs[Child(n)].kind = "dir"

\* C1, amended: after synchronize_directories returns without error every
\* desired course name exists under the semester path, and is a directory
\* unless a file of that name was there before the run, which is then left
\* as it was.
C1_DesiredExist ==
  Returned =>
    \A n \in NamesOf(courses) :
      \/ fs[Child(n)].kind = "dir"
      \/ (fs0[Child(n)].kind = "file" /\ fs[Child(n)] = fs0[Child(n)])

\* A run that returned, having created a desired folder beside others that
\* were there.
C1_Witness ==
  /\ Returned
  /\ ExistingAtStart # {}
  /\ \E n \in NamesOf(courses) :
       fs0[Child(n)].kind = "none" /\ fs[Child(n)].kind = "dir"
  /\ \E n \in NamesOf(courses) : fs0[Child(n)].kind = "file"

\* ---------------------------------------------------------------------- C2

\* C2: of the subdirectories that are not desired course names, those empty
\* when the run began are gone when synchronize_directories has returned, and
\* those non-empty are at every moment exactly as they were, a diagnostic
\* being printed for each; only directories that were empty are ever deleted,
\* and a non-empty directory is never changed in part.
C2_SafeDelete ==
  /\ \A n \in ExistingAtStart \ NamesOf(courses) :
       IF n \in EmptyAtStart
         THEN Returned => ~exists(fs, Child(n))
         ELSE /\ SameFolder(fs, fs0, n)
              /\ Returned =>
                   \E k \in 1..Len(output) :
                     output[k] = <<"Directory is not empty and was not deleted: ", n>>
  /\ \A n \in ExistingAtStart \ EmptyAtStart :
       SameFolder(fs, fs0, n)
  /\ CallsOf("rmtree") \subseteq {Child(n) : n \in EmptyAtStart}

\* A run that returned having deleted an empty directory and kept a non-empty
\* one, neither a desired course.
C2_Witness ==
  /\ Returned
  /\ \E n, m \in ExistingAtStart \ NamesOf(courses) :
       /\ n \in EmptyAtStart /\ ~exists(fs, Child(n))
       /\ m \notin EmptyAtStart /\ exists(fs, InfoFile(m))

\* ---------------------------------------------------------------------- C3

\* C3: a run that repeats, on the tree it left, a run that completed with the
\* same root, semester label and DesiredSet makes no mutating filesystem call
\* and leaves the tree as the first run left it.
C3_Idempotent == rerun => (calls = <<>> /\ fs = fs0)

\* The second of two such runs has returned; the first left a course folder
\* with its descriptor and a folder that is no desired course.
C3_Witness ==
  /\ rerun /\ Returned
  /\ \E n \in NamesOf(courses) :
       /\ fs[InfoFile(n)].kind = "file"
       /\ fs[InfoFile(n)].data = DescriptorText(RecordNamed(n))
  /\ \E n \in Names \ NamesOf(courses) : isdir(fs, Child(n))

\* ---------------------------------------------------------------------- C4

\* C4: a pass of the creation loop on a course whose path exists, as a
\* directory or as a file, changes nothing in the filesystem; no step of any
\* run changes a descriptor file that exists; and what exists at a course
\* path is never changed by a step, except that an empty directory that is
\* no desired course is deleted.
C4_NeverOverwritten ==
  [][ \/ fs' = fs
      \/ /\ ~( /\ pc = "create" /\ i <= Len(courses)
                /\ exists(fs, Child(Get(courses[i], "coursename"))) )
         /\ \A n \in Names :
              /\ fs[InfoFile(n)].kind = "file" =>
                   fs'[InfoFile(n)] = fs[InfoFile(n)]
              /\ exists(fs, Child(n)) =>
                   \/ SameFolder(fs', fs, n)
                   \/ /\ isdir(fs, Child(n))
                      /\ is_directory_empty(fs, Child(n))
                      /\ n \notin NamesOf(courses)
                      /\ ~exists(fs', Child(n))
    ]_vars

\* create_folder_with_info was called on a path where a file is; another
\* desired course has a folder whose descriptor differs from its record.
C4_Witness ==
  /\ Printed("Folder already exists: ")
  /\ pc = "exit"
  /\ \E n \in NamesOf(courses) :
       /\ fs[InfoFile(n)].kind = "file"
       /\ fs[InfoFile(n)].data # DescriptorText(RecordNamed(n))

\* ---------------------------------------------------------------------- C6

\* C6: once a call has raised in synchronize_directories no step of the run
\* changes the filesystem; what the completed calls did is still there (no
\* rollback); and the run ends having printed "An error occurred: {message}"
\* last, and never the completion message.
C6_ErrorHalts ==
  /\ [][error # "none" => fs' = fs]_vars
  /\ [](error # "none" =>
          /\ pc \in {"raised", "exit"}
          /\ \A p \in CallsOf("makedirs") : isdir(fs, p)
          /\ \A p \in CallsOf("write") : fs[p].kind = "file"
          /\ \A p \in CallsOf("rmtree") : ~exists(fs, p)
          /\ ~Printed("Course folder synchronization complete.")
          /\ pc = "exit" =>
               output[Len(output)] = <<"An error occurred: ", error>>)

\* A run ended by an error after a mutation, with a desired course left
\* without its folder.
C6_Witness ==
  /\ pc = "exit" /\ error = "PermissionError"
  /\ calls # <<>>
  /\ i <= Len(courses)
  /\ ~exists(fs, Child(Get(courses[i], "coursename")))

\* ---------------------------------------------------------------------- C7

\* C7: a folder create_folder_with_info created in full, on a path where
\* nothing was, is a directory holding the descriptor file and nothing else,
\* and the lines of the descriptor are "key: value" for each field of the
\* record, in the record's order; for DesiredSet = [{coursename: CS314}] and
\* nothing at the semester path, a run that returned leaves CS314 as the one
\* folder, its descriptor the one line "coursename: CS314".
C7_Descriptor ==
  /\ \A n \in created :
       /\ fs0[Child(n)].kind = "none"
       /\ isdir(fs, Child(n))
       /\ listdir(fs, Child(n)) = {"course_info.txt"}
       /\ fs[InfoFile(n)].kind = "file"
       /\ SplitLines(fs[InfoFile(n)].data, <<>>) =
            [k \in 1..Len(RecordNamed(n)) |->
               <<RecordNamed(n)[k][1], ": ", RecordNamed(n)[k][2]>>]
  /\ ( /\ Returned
       /\ courses = << <<<<"coursename", "CS314">>>> >>
       /\ \A n \in Names : ~exists(fs0, Child(n)) )
     => /\ listdir(fs, semester_path) = {"CS314"}
        /\ isdir(fs, Child("CS314"))
        /\ SplitLines(fs[InfoFile("CS314")].data, <<>>) =
             << <<"coursename", ": ", "CS314">> >>

\* Two folders were created from records of two fields.
C7_Witness ==
  /\ Returned
  /\ Cardinality(created) = 2
  /\ \A n \in created : Len(RecordNamed(n)) = 2

\* ---------------------------------------------------------------------- C8

\* C8: when the semester path is missing as the run begins, the snapshot is
\* empty and reading it raises nothing, no deletion is made, and when
\* synchronize_directories has returned every desired course is a directory
\* (and so is the semester path, if a course was desired); with an empty
\* DesiredSet a run that returned made no creation and deleted exactly the
\* subdirectories that were empty.
C8_MissingSemesterPath ==
  /\ ~exists(fs0, semester_path) =>
       /\ error # "NotADirectoryError"
       /\ existing_dirs = {}
       /\ (pc = "create" /\ i = 1) => error = "none"
       /\ CallsOf("rmtree") = {}
       /\ Returned =>
            /\ \A n \in NamesOf(courses) : isdir(fs, Child(n))
            /\ courses # <<>> => isdir(fs, semester_path)
  /\ (courses = <<>> /\ Returned) =>
       /\ CallsOf("makedirs") = {} /\ CallsOf("write") = {}
       /\ CallsOf("rmtree") = {Child(n) : n \in EmptyAtStart}
       /\ \A p \in AllPaths :
            fs[p] = IF \E n \in EmptyAtStart : p = Child(n) THEN Absent ELSE fs0[p]

\* A run on a missing semester path returned, having created two folders.
C8_Witness ==
  /\ ~exists(fs0, semester_path)
  /\ Returned
  /\ Len(courses) = 2
  /\ isdir(fs, semester_path)

\* --------------------------------------------------------------------- C10

ExpectedLabel(m, y) ==
  CASE m \in {11, 12} -> "Spring " \o ToString(y + 1)
    [] m \in 6..10 -> "Fall " \o ToString(y)
    [] m \in 1..5 -> "Summer " \o ToString(y)

\* C5: the label determine_semester returns is "Spring {y+1}" for months 11
\* and 12, "Fall {y}" for months 6 to 10 and "Summer {y}" for months 1 to 5,
\* where the month and the year y are those of one instant of the call.
C5_OneInstant ==
  spc = "returned" =>
    \E t \in instants : label = ExpectedLabel(t.month, t.year)

\* ---------------------------------------------------------------------- C9

EnterKeys == {"KEY_ENTER", "\n"}

\* C9, as stated: on a non-empty list the cursor stays within 0 .. n-1, the
\* prompt returns only on ENTER, and what it returns is the element of the
\* list at the cursor.
C9_AsStated ==
  Len(items) >= 1 =>
    /\ 0 <= cursor_position /\ cursor_position <= Len(items) - 1
    /\ ppc = "returned" =>
         /\ key \in EnterKeys
         /\ result = items[cursor_position + 1]

\* C9, amended: on a non-empty list the cursor stays within 0 .. n-1 (UP
\* moves it up unless it is 0, DOWN moves it down unless it is n-1, any other
\* key that is not ENTER leaves it), the prompt returns only on ENTER, and
\* what it returns is the element of the list at the cursor for
\* select_directory and the download_url of that element for
\* select_json_file.
C9_Prompt ==
  /\ [](Len(items) >= 1 =>
          /\ 0 <= cursor_position /\ cursor_position <= Len(items) - 1
          /\ ppc \in {"loop", "returned"}
          /\ ppc = "returned" =>
               /\ key \in EnterKeys
               /\ fn = "select_directory" =>
                    result = items[cursor_position + 1]
               /\ fn = "select_json_file" =>
                    /\ result.type = "str"
                    /\ result.val = items[cursor_position + 1].download_url)
  /\ [][Len(items) >= 1 =>
          /\ ppc' = "returned" <=> key' \in EnterKeys
          /\ cursor_position' =
               IF key' = "KEY_UP" /\ cursor_position # 0
                 THEN cursor_position - 1
               ELSE IF key' = "KEY_DOWN" /\ cursor_position # Len(items) - 1
                 THEN cursor_position + 1
               ELSE cursor_position]_vars

\* select_json_file returned with the cursor moved to the last of three files.
C9_Witness ==
  /\ ppc = "returned"
  /\ fn = "select_json_file"
  /\ Len(items) = 3
  /\ cursor_position = 2

====
